---- MODULE Spec2Model ----
(***************************************************************************)
(* Clinical Thinking Training System: the FastAPI handlers of src/main.py  *)
(* over the tables of src/models.py.                                       *)
(*                                                                         *)
(* The relational store is shared by every request.  A handler is a        *)
(* sequence of store round trips: the dependency that resolves the bearer  *)
(* token, the handler's queries, and its commit.  Requests of different    *)
(* workers interleave between round trips; every statement sees the        *)
(* latest committed rows (read committed).  Time is counted in minutes.    *)
(***************************************************************************)
EXTENDS Integers, Sequences, FiniteSets, TLC

VARIABLES users, classes, class_students, cases, case_seq, sessions, dialogues,
          now, req, served

vars == <<users, classes, class_students, cases, case_seq, sessions, dialogues,
          now, req, served>>

db == <<users, classes, class_students, cases, case_seq, sessions, dialogues>>

-----------------------------------------------------------------------------
(* Bounds of the model *)

\* The requests served in a run
MaxRequests == 5

\* The longest string given to the scoring rule
MaxLen == 3

\* The most sessions in a table given to the statistics
MaxSessions == 3

Workers == {1, 2}

-----------------------------------------------------------------------------
(* Enumerations and configuration *)

TEACHER == "teacher"
STUDENT == "student"

IN_PROGRESS == "in_progress"
COMPLETED == "completed"
ABANDONED == "abandoned"

SessionStatus == {IN_PROGRESS, COMPLETED, ABANDONED}

USER == "user"
AI == "ai"

DialogueRole == {USER, AI}

SECRET_KEY == "your-secret-key-change-this-in-production"

ACCESS_TOKEN_EXPIRE_MINUTES == 60 * 24

DefaultExpireMinutes == 15

\* A nullable column or optional field that holds no value.
Null == -1

NoEmail == "none"

-----------------------------------------------------------------------------
(* Strings are sequences of characters. *)

Chars == {"A", "a", "b", " "}

\* str.lower() on one character
LowerChar(c) == IF c = "A" THEN "a" ELSE c

IsSpace(c) == c = " "

\* str.lower()
Lower(s) == [i \in 1..Len(s) |-> LowerChar(s[i])]

RECURSIVE LStrip(_)
LStrip(s) == IF s # <<>> /\ IsSpace(Head(s)) THEN LStrip(Tail(s)) ELSE s

RECURSIVE RStrip(_)
RStrip(s) ==
    IF s # <<>> /\ IsSpace(s[Len(s)]) THEN RStrip(SubSeq(s, 1, Len(s) - 1)) ELSE s

\* str.strip()
Strip(s) == RStrip(LStrip(s))

\* `a in b` that finds no empty string
InNonEmpty(a, b) ==
    /\ a # <<>>
    /\ \E k \in 0..(Len(b) - Len(a)) : \A i \in 1..Len(a) : b[k + i] = a[i]

\* the Python operator `a in b` on strings: a occurs in b at some offset
In(a, b) ==
    \E k \in 0..(Len(b) - Len(a)) : \A i \in 1..Len(a) : b[k + i] = a[i]

-----------------------------------------------------------------------------
(* Credentials and bearer tokens *)

\* pwd_context.hash: a salted digest from which only verify can tell the password
get_password_hash(password) == <<"bcrypt", password>>

verify_password(plain_password, hashed_password) ==
    hashed_password = get_password_hash(plain_password)

NoSub == "None"

\* jwt.encode: the claims, signed with the key
JwtEncode(claims, key) == [form |-> "jwt", claims |-> claims, key |-> key]

NoClaims == [sub |-> NoSub, exp |-> 0]

NoToken == [form |-> "missing", claims |-> NoClaims, key |-> ""]

MalformedToken == [form |-> "malformed", claims |-> NoClaims, key |-> ""]

NoDelta == Null

create_access_token(sub, expires_delta, t) ==
    LET expire == IF expires_delta # NoDelta THEN t + expires_delta
                  ELSE t + DefaultExpireMinutes
    IN  JwtEncode([sub |-> sub, exp |-> expire], SECRET_KEY)

JWTError == [sub |-> "JWTError", exp |-> 0]

\* jwt.decode without the check of exp
JwtDecodeExpiredAlsoValid(token, key, t) ==
    IF token.form # "jwt" \/ token.key # key THEN JWTError ELSE token.claims

\* jwt.decode: JWTError unless the token parses, carries the key's signature and
\* its exp is not before the time of the call
JwtDecode(token, key, t) ==
    IF token.form # "jwt" \/ token.key # key THEN JWTError
    ELSE IF token.claims.exp < t THEN JWTError
    ELSE token.claims

UserIds == 1..Len(users)

\* db.query(User).filter(User.username == name).first(), as an id; 0 for None
UserByUsername(name) ==
    IF \E u \in UserIds : users[u].username = name
    THEN CHOOSE u \in UserIds : users[u].username = name
    ELSE 0

\* The dependency get_current_user: the id of the user, 0 for the 401
\* credentials_exception (raised by oauth2_scheme when no token is sent).
get_current_user(token, t) ==
    IF token.form = "missing" THEN 0
    ELSE LET payload == JwtDecode(token, SECRET_KEY, t)
         IN  IF payload = JWTError THEN 0
             ELSE IF payload.sub = NoSub THEN 0
             ELSE UserByUsername(payload.sub)

-----------------------------------------------------------------------------
(* Time *)

\* The times at which the clock is read: the start, and the minute after the
\* tokens issued at the start have expired
TimePoints == {0, ACCESS_TOKEN_EXPIRE_MINUTES + 1}

\* The times at which the tokens that clients present were issued by login
IssueTimes == TimePoints

Usernames == {"teacher", "student", "teacher2", "student2"}

\* What a client can present: a token login issued earlier, a token signed with
\* the key for a subject that is no username, one signed with another key, one
\* without a subject, one that does not parse, or none.
TokenInputs ==
    {create_access_token(u, ACCESS_TOKEN_EXPIRE_MINUTES, t) :
        u \in {n \in Usernames : UserByUsername(n) # 0},
        t \in {i \in IssueTimes : i <= now}}
    \cup {JwtEncode([sub |-> "ghost", exp |-> now + 1], SECRET_KEY),
          JwtEncode([sub |-> "teacher", exp |-> now + 1], "other-key"),
          JwtEncode([sub |-> NoSub, exp |-> now + 1], SECRET_KEY),
          MalformedToken, NoToken}

-----------------------------------------------------------------------------
(* Requests in flight *)

IdleReq ==
    [pc |-> "idle", op |-> "none", user |-> 0, token |-> NoToken, id |-> 0,
     target |-> 0, text |-> <<>>, fields |-> {}, role |-> "", ts |-> Null,
     score |-> Null, code |-> 0, body |-> <<>>]

\* The request of worker w ends with a status code and a body.
Respond(r, code, body) ==
    [IdleReq EXCEPT !.pc = "done", !.op = r.op, !.user = r.user, !.id = r.id,
                    !.target = r.target,
                    !.code = code, !.body = body]

\* Resolving the token and sending the response touch no row that a handler
\* writes, so where they fall among the steps of other requests changes nothing:
\* the handler's first query follows the dependency, and the response is sent,
\* before any other request moves.  Requests interleave between a handler's
\* queries and its commit.
Quiet(w) == \A v \in Workers \ {w} : req[v].pc \notin {"authed", "done"}

\* A free worker takes the next request: the lowest-numbered one.
Free(w) ==
    /\ req[w].pc = "idle"
    /\ served < MaxRequests
    /\ Quiet(w)
    /\ \A v \in Workers : v < w => req[v].pc # "idle"

-----------------------------------------------------------------------------
(* Initial state: empty tables, then seed_data *)

SeedUsers ==
    << [username |-> "teacher", password_hash |-> get_password_hash("teacher123"),
        role |-> TEACHER, email |-> "teacher@example.com"],
       [username |-> "student", password_hash |-> get_password_hash("student123"),
        role |-> STUDENT, email |-> "student@example.com"] >>

Init ==
    /\ users = SeedUsers
    /\ classes = <<>>
    /\ class_students = <<>>
    /\ cases = <<>>
    /\ case_seq = 0
    /\ sessions = <<>>
    /\ dialogues = <<>>
    /\ now = 0
    /\ req = [w \in Workers |-> IdleReq]
    /\ served = 0

-----------------------------------------------------------------------------
(* The clock *)

Tick ==
    /\ Quiet(0)
    /\ \E t \in TimePoints : t > now /\ now' = t
    /\ UNCHANGED <<db, req, served>>

\* The response is sent; the worker is free again.
Return(w) ==
    /\ req[w].pc = "done"
    /\ req' = [req EXCEPT ![w] = IdleReq]
    /\ UNCHANGED <<db, now, served>>

-----------------------------------------------------------------------------
(* Dependencies *)

\* oauth2_scheme and get_current_user, awaited before the handler runs
Authenticate(w) ==
    /\ Free(w)
    /\ served' = served + 1
    /\ \E token \in TokenInputs :
         LET user == get_current_user(token, now)
             r == [IdleReq EXCEPT !.token = token, !.user = user]
         IN  req' = [req EXCEPT ![w] =
                        IF user = 0 THEN [r EXCEPT !.pc = "done", !.code = 401]
                        ELSE [r EXCEPT !.pc = "authed"]]
    /\ UNCHANGED <<db, now>>

get_current_teacher(u) == users[u].role = TEACHER

get_current_student(u) == users[u].role = STUDENT

-----------------------------------------------------------------------------
(* Auth endpoints *)

LoginInputs ==
    {<<"teacher", "teacher123">>, <<"student", "student123">>,
     <<"student", "teacher123">>, <<"ghost", "student123">>}

login(w) ==
    /\ Free(w)
    /\ served' = served + 1
    /\ \E form_data \in LoginInputs :
         LET user == UserByUsername(form_data[1])
             r == [IdleReq EXCEPT !.op = "login"]
         IN  req' = [req EXCEPT ![w] =
                IF user = 0 \/ ~verify_password(form_data[2], users[user].password_hash)
                THEN Respond(r, 401, <<>>)
                ELSE [Respond([r EXCEPT !.user = user], 200, <<>>) EXCEPT !.token =
                        create_access_token(users[user].username,
                                            ACCESS_TOKEN_EXPIRE_MINUTES, now)]]
    /\ UNCHANGED <<db, now>>

RegisterInputs ==
    {[username |-> "teacher2", password |-> "secret1", role |-> TEACHER, email |-> NoEmail],
     [username |-> "student2", password |-> "secret2", role |-> STUDENT, email |-> NoEmail],
     [username |-> "student", password |-> "secret3", role |-> STUDENT, email |-> NoEmail],
     [username |-> "student3", password |-> "secret4", role |-> STUDENT,
      email |-> "student@example.com"]}

\* register: the two uniqueness queries, then the insert and its commit, taken
\* as one step: the unique indexes on username and email keep a concurrent
\* registration from adding a duplicate row whatever the interleaving.
register(w) ==
    /\ Free(w)
    /\ served' = served + 1
    /\ \E user \in RegisterInputs :
         LET r == [IdleReq EXCEPT !.op = "register"]
             taken == \/ UserByUsername(user.username) # 0
                      \/ /\ user.email # NoEmail
                         /\ \E u \in UserIds : users[u].email = user.email
         IN  IF taken
             THEN /\ req' = [req EXCEPT ![w] = Respond(r, 400, <<>>)]
                  /\ UNCHANGED users
             ELSE /\ users' = Append(users,
                        [username |-> user.username,
                         password_hash |-> get_password_hash(user.password),
                         role |-> user.role, email |-> user.email])
                  /\ req' = [req EXCEPT ![w] = Respond(r, 200, <<Len(users) + 1>>)]
    /\ UNCHANGED <<classes, class_students, cases, case_seq, sessions, dialogues,
                   now>>

-----------------------------------------------------------------------------
(* Case endpoints *)

CaseIds == DOMAIN cases

CanonInputs == {<<"A", "b">>, <<"b", "b">>}

CaseInputs == {[diagnosis |-> d] : d \in CanonInputs}

\* CaseUpdate payloads: the fields that are set, and their values
CaseUpdateInputs ==
    {[fields |-> {}, diagnosis |-> <<>>]}
    \cup {[fields |-> {"diagnosis"}, diagnosis |-> d] : d \in CanonInputs}

\* Sent ids: those of the rows, and one that is no row
IdInputs(n) == 1..(n + 1)

create_case(w) ==
    /\ req[w].pc = "authed"
    /\ \E case \in CaseInputs :
         LET r == [req[w] EXCEPT !.op = "create_case"]
         IN  IF ~get_current_teacher(r.user)
             THEN /\ req' = [req EXCEPT ![w] = Respond(r, 403, <<>>)]
                  /\ UNCHANGED <<classes, class_students, cases, case_seq>>
             ELSE /\ case_seq' = case_seq + 1
                  /\ cases' = (case_seq' :> [diagnosis |-> case.diagnosis,
                                            created_by |-> r.user]) @@ cases
                  /\ req' = [req EXCEPT ![w] = Respond(r, 200, <<case_seq'>>)]
    /\ UNCHANGED <<users, classes, class_students, sessions, dialogues,
                   now, served>>

\* case.created_by != current_user.id, with the owner check left out
IsForeignCaseNoCheck(case_id, u) == FALSE

\* case.created_by != current_user.id
IsForeignCase(case_id, u) == cases[case_id].created_by # u

\* update_case up to its commit: the query, the checks and the setattr loop
update_case(w) ==
    /\ req[w].pc = "authed"
    /\ \E case_id \in IdInputs(case_seq), case_update \in CaseUpdateInputs :
         LET r == [req[w] EXCEPT !.op = "update_case", !.id = case_id]
         IN  req' = [req EXCEPT ![w] =
                IF ~get_current_teacher(r.user) THEN Respond(r, 403, <<>>)
                ELSE IF case_id \notin CaseIds THEN Respond(r, 404, <<>>)
                ELSE IF IsForeignCase(case_id, r.user) THEN Respond(r, 403, <<>>)
                ELSE [r EXCEPT !.pc = "update_commit", !.token = NoToken,
                               !.fields = case_update.fields,
                               !.text = case_update.diagnosis]]
    /\ UNCHANGED <<db, now, served>>

\* db.commit() and db.refresh(case) of update_case: the UPDATE of the row by its
\* primary key fails when the row is gone
update_case_commit(w) ==
    /\ req[w].pc = "update_commit"
    /\ Quiet(w)
    /\ LET r == req[w]
       IN  IF r.id \notin CaseIds
           THEN /\ req' = [req EXCEPT ![w] = Respond(r, 500, <<>>)]
                /\ UNCHANGED cases
           ELSE /\ cases' = [cases EXCEPT ![r.id] =
                    [diagnosis |-> IF "diagnosis" \in r.fields THEN r.text
                                   ELSE @.diagnosis,
                     created_by |-> @.created_by]]
                /\ req' = [req EXCEPT ![w] = Respond(r, 200, <<r.id>>)]
    /\ UNCHANGED <<users, classes, class_students, case_seq, sessions, dialogues,
                   now, served>>

\* delete_case up to its commit
delete_case(w) ==
    /\ req[w].pc = "authed"
    /\ \E case_id \in IdInputs(case_seq) :
         LET r == [req[w] EXCEPT !.op = "delete_case", !.id = case_id]
         IN  req' = [req EXCEPT ![w] =
                IF ~get_current_teacher(r.user) THEN Respond(r, 403, <<>>)
                ELSE IF case_id \notin CaseIds THEN Respond(r, 404, <<>>)
                ELSE IF IsForeignCase(case_id, r.user) THEN Respond(r, 403, <<>>)
                ELSE [r EXCEPT !.pc = "delete_commit", !.token = NoToken]]
    /\ UNCHANGED <<db, now, served>>

\* Case.sessions left unloaded: no row to detach
SessionsOfCaseUnloaded(case_id) == {}

\* The rows of sessions that reference the case (Case.sessions)
SessionsOfCase(case_id) ==
    {i \in 1..Len(sessions) : sessions[i].case_id = case_id}

\* db.delete(case) and db.commit(): the flush first detaches the rows of
\* Case.sessions by setting their case_id to NULL, which the NOT NULL column
\* refuses (IntegrityError, nothing is deleted); with no such row the case is
\* deleted.  A row that is already gone leaves nothing to delete.
delete_case_commit(w) ==
    /\ req[w].pc = "delete_commit"
    /\ Quiet(w)
    /\ LET r == req[w]
       IN  IF r.id \in CaseIds /\ SessionsOfCase(r.id) # {}
           THEN /\ req' = [req EXCEPT ![w] = Respond(r, 500, <<>>)]
                /\ UNCHANGED cases
           ELSE /\ cases' = [c \in CaseIds \ {r.id} |-> cases[c]]
                /\ req' = [req EXCEPT ![w] = Respond(r, 200, <<>>)]
    /\ UNCHANGED <<users, classes, class_students, case_seq, sessions, dialogues,
                   now, served>>

-----------------------------------------------------------------------------
(* Session endpoints *)

SessionIds == 1..Len(sessions)

\* student_diagnosis IS NULL
NullText == <<"NULL">>

\* The query of create_session with the filter on status left out
ExistingAnyStatus(student_id, case_id) ==
    {i \in SessionIds : /\ sessions[i].student_id = student_id
                        /\ sessions[i].case_id = case_id}

\* The rows of the query for an existing incomplete session
Existing(student_id, case_id) ==
    {i \in SessionIds : /\ sessions[i].student_id = student_id
                        /\ sessions[i].case_id = case_id
                        /\ sessions[i].status = IN_PROGRESS}

\* The new row with the score column defaulting to 0
NewSessionScored(student_id, case_id, t) ==
    [student_id |-> student_id, case_id |-> case_id, status |-> IN_PROGRESS,
     score |-> 0, started_at |-> t, diagnosis_submitted |-> Null,
     student_diagnosis |-> NullText]

\* SessionModel(student_id, case_id, status=IN_PROGRESS): the other columns
\* take their defaults
NewSession(student_id, case_id, t) ==
    [student_id |-> student_id, case_id |-> case_id, status |-> IN_PROGRESS,
     score |-> Null, started_at |-> t, diagnosis_submitted |-> Null,
     student_diagnosis |-> NullText]

\* create_session up to its commit: the query for the case, then the query for
\* an existing incomplete session, of which .first() takes whichever row the
\* store yields first
create_session(w) ==
    /\ req[w].pc = "authed"
    /\ \E case_id \in IdInputs(case_seq) :
         LET r == [req[w] EXCEPT !.op = "create_session", !.id = case_id]
             existing == Existing(r.user, case_id)
         IN  IF ~get_current_student(r.user)
             THEN req' = [req EXCEPT ![w] = Respond(r, 403, <<>>)]
             ELSE IF case_id \notin CaseIds
             THEN req' = [req EXCEPT ![w] = Respond(r, 404, <<>>)]
             ELSE IF existing # {}
             THEN \E i \in existing : req' = [req EXCEPT ![w] = Respond(r, 200, <<i>>)]
             ELSE req' = [req EXCEPT ![w] =
                        [r EXCEPT !.pc = "session_commit", !.token = NoToken]]
    /\ UNCHANGED <<db, now, served>>

\* The store enforces the foreign key of sessions.case_id: it refuses a row
\* that references no case.
ForeignKeyRefuses(case_id) == case_id \notin CaseIds

\* db.add(db_session), db.commit() and db.refresh(db_session): the INSERT, which
\* the foreign key on case_id refuses when the case is gone
create_session_commit(w) ==
    /\ req[w].pc = "session_commit"
    /\ Quiet(w)
    /\ LET r == req[w]
       IN  IF ForeignKeyRefuses(r.id)
           THEN /\ req' = [req EXCEPT ![w] = Respond(r, 500, <<>>)]
                /\ UNCHANGED sessions
           ELSE /\ sessions' = Append(sessions, NewSession(r.user, r.id, now))
                /\ req' = [req EXCEPT ![w] = Respond(r, 200, <<Len(sessions) + 1>>)]
    /\ UNCHANGED <<users, classes, class_students, cases, case_seq, dialogues,
                   now, served>>

\* The sequences that hold each element of S once
Orderings(S) ==
    {p \in [1..Cardinality(S) -> S] : \A i, j \in DOMAIN p : i # j => p[i] # p[j]}

\* The check of get_session and get_session_dialogues, refusing nobody
IsForeignSessionNoCheck(session_id, u) == FALSE

\* current_user.role == STUDENT and session.student_id != current_user.id
IsForeignSession(session_id, u) ==
    users[u].role = STUDENT /\ sessions[session_id].student_id # u

\* The query of list_sessions before the filter on status
VisibleSessions(u) ==
    IF users[u].role = STUDENT
    THEN {i \in SessionIds : sessions[i].student_id = u}
    ELSE SessionIds

StatusFilters == {"", IN_PROGRESS, COMPLETED, ABANDONED}

\* list_sessions: ORDER BY started_at DESC leaves the order of equal keys to
\* the store
list_sessions(w) ==
    /\ req[w].pc = "authed"
    /\ \E status \in StatusFilters :
         LET r == [req[w] EXCEPT !.op = "list_sessions"]
             rows == {i \in VisibleSessions(r.user) :
                         status # "" => sessions[i].status = status}
         IN  \E p \in Orderings(rows) :
               /\ \A i, j \in DOMAIN p :
                     i < j => sessions[p[i]].started_at >= sessions[p[j]].started_at
               /\ req' = [req EXCEPT ![w] = Respond(r, 200, p)]
    /\ UNCHANGED <<db, now, served>>

get_session(w) ==
    /\ req[w].pc = "authed"
    /\ \E session_id \in IdInputs(Len(sessions)) :
         LET r == [req[w] EXCEPT !.op = "get_session", !.id = session_id]
         IN  req' = [req EXCEPT ![w] =
                IF session_id \notin SessionIds THEN Respond(r, 404, <<>>)
                ELSE IF IsForeignSession(session_id, r.user) THEN Respond(r, 403, <<>>)
                ELSE Respond(r, 200, <<session_id>>)]
    /\ UNCHANGED <<db, now, served>>

\* The scoring of submit_diagnosis with only the first test of the condition
ScoreOneWay(canonical, submitted) ==
    LET correct_diagnosis == Strip(Lower(canonical))
        student_diagnosis == Strip(Lower(submitted))
    IN  IF In(correct_diagnosis, student_diagnosis) THEN 100 ELSE 0

\* The scoring of submit_diagnosis
Score(canonical, submitted) ==
    LET correct_diagnosis == Strip(Lower(canonical))
        student_diagnosis == Strip(Lower(submitted))
    IN  IF \/ In(correct_diagnosis, student_diagnosis)
           \/ In(student_diagnosis, correct_diagnosis)
        THEN 100
        ELSE 0

\* session.student_id != current_user.id, refusing a closed session as well
IsNotOwnOrClosed(session_id, u) ==
    sessions[session_id].student_id # u \/ sessions[session_id].status # IN_PROGRESS

\* session.student_id != current_user.id
IsNotOwn(session_id, u) == sessions[session_id].student_id # u

\* The assignments of submit_diagnosis, with a second submission reopening
\* the session
SubmittedReopens(session, diagnosis, t, score) ==
    [session EXCEPT !.student_diagnosis = diagnosis,
                    !.diagnosis_submitted = t,
                    !.status = IF @ = COMPLETED THEN IN_PROGRESS ELSE COMPLETED,
                    !.score = score]

\* The assignments of submit_diagnosis to the session
Submitted(session, diagnosis, t, score) ==
    [session EXCEPT !.student_diagnosis = diagnosis,
                    !.diagnosis_submitted = t,
                    !.status = COMPLETED,
                    !.score = score]

DiagnosisInputs == {<<" ", "a", "b">>, <<"b", "a">>}

\* submit_diagnosis up to its commit: the query, the checks, the assignments
\* (datetime.utcnow() is read here) and the scoring against session.case
submit_diagnosis_of(w, inputs) ==
    /\ req[w].pc = "authed"
    /\ \E session_id \in IdInputs(Len(sessions)), diagnosis \in inputs :
         LET r == [req[w] EXCEPT !.op = "submit_diagnosis", !.id = session_id,
                                 !.text = diagnosis]
         IN  req' = [req EXCEPT ![w] =
                IF ~get_current_student(r.user) THEN Respond(r, 403, <<>>)
                ELSE IF session_id \notin SessionIds THEN Respond(r, 404, <<>>)
                ELSE IF IsNotOwn(session_id, r.user) THEN Respond(r, 403, <<>>)
                ELSE IF sessions[session_id].case_id \notin CaseIds
                THEN Respond(r, 500, <<>>)
                ELSE [r EXCEPT !.pc = "submit_commit", !.token = NoToken,
                               !.ts = now,
                               !.score = Score(cases[sessions[session_id].case_id].diagnosis,
                                               diagnosis)]]
    /\ UNCHANGED <<db, now, served>>

submit_diagnosis(w) == submit_diagnosis_of(w, DiagnosisInputs)

\* db.commit() and db.refresh(session) of submit_diagnosis
submit_diagnosis_commit(w) ==
    /\ req[w].pc = "submit_commit"
    /\ Quiet(w)
    /\ LET r == req[w]
       IN  /\ sessions' = [sessions EXCEPT ![r.id] =
                  Submitted(@, r.text, r.ts, r.score)]
           /\ req' = [req EXCEPT ![w] = Respond(r, 200, <<r.id>>)]
    /\ UNCHANGED <<users, classes, class_students, cases, case_seq, dialogues,
                   now, served>>

-----------------------------------------------------------------------------
(* Dialogue endpoints *)

DialogueIds == 1..Len(dialogues)

DialogueInputs ==
    {[message |-> <<"a">>, role |-> USER], [message |-> <<"b">>, role |-> AI]}

\* create_dialogue up to its commit
create_dialogue(w) ==
    /\ req[w].pc = "authed"
    /\ \E session_id \in IdInputs(Len(sessions)), dialogue \in DialogueInputs :
         LET r == [req[w] EXCEPT !.op = "create_dialogue", !.id = session_id,
                                 !.text = dialogue.message, !.role = dialogue.role]
         IN  IF ~get_current_student(r.user)
             THEN req' = [req EXCEPT ![w] = Respond(r, 403, <<>>)]
             ELSE IF session_id \notin SessionIds
             THEN req' = [req EXCEPT ![w] = Respond(r, 404, <<>>)]
             ELSE IF IsNotOwn(session_id, r.user)
             THEN req' = [req EXCEPT ![w] = Respond(r, 403, <<>>)]
             ELSE IF sessions[session_id].status # IN_PROGRESS
             THEN req' = [req EXCEPT ![w] = Respond(r, 400, <<>>)]
             ELSE req' = [req EXCEPT ![w] =
                        [r EXCEPT !.pc = "dialogue_commit", !.token = NoToken]]
    /\ UNCHANGED <<db, now, served>>

\* db.add(db_dialogue), db.commit() and db.refresh(db_dialogue): the INSERT
\* stamps the row with the store's clock (server_default=func.now())
create_dialogue_commit(w) ==
    /\ req[w].pc = "dialogue_commit"
    /\ Quiet(w)
    /\ LET r == req[w]
       IN  /\ dialogues' = Append(dialogues,
                  [session_id |-> r.id, message |-> r.text, role |-> r.role,
                   timestamp |-> now])
           /\ req' = [req EXCEPT ![w] = Respond(r, 200, <<Len(dialogues) + 1>>)]
    /\ UNCHANGED <<users, classes, class_students, cases, case_seq, sessions,
                   now, served>>

\* Session.dialogues: the rows of the session
DialoguesOf(session_id) ==
    {d \in DialogueIds : dialogues[d].session_id = session_id}

\* Session.dialogues is loaded with ORDER BY dialogues.timestamp: rows of equal
\* timestamp come in whatever order the store produces
get_session_dialogues(w) ==
    /\ req[w].pc = "authed"
    /\ \E session_id \in IdInputs(Len(sessions)) :
         LET r == [req[w] EXCEPT !.op = "get_session_dialogues", !.id = session_id]
         IN  IF session_id \notin SessionIds
             THEN req' = [req EXCEPT ![w] = Respond(r, 404, <<>>)]
             ELSE IF IsForeignSession(session_id, r.user)
             THEN req' = [req EXCEPT ![w] = Respond(r, 403, <<>>)]
             ELSE \E p \in Orderings(DialoguesOf(session_id)) :
                    /\ \A i, j \in DOMAIN p :
                          i < j => dialogues[p[i]].timestamp <= dialogues[p[j]].timestamp
                    /\ req' = [req EXCEPT ![w] = Respond(r, 200, p)]
    /\ UNCHANGED <<db, now, served>>

-----------------------------------------------------------------------------
(* Class endpoints *)

ClassIds == 1..Len(classes)

\* class_obj.students: the users that the rows of class_students give the class
StudentsOf(class_id) ==
    {class_students[i].student_id :
        i \in {j \in 1..Len(class_students) : class_students[j].class_id = class_id}}

\* The primary key (class_id, student_id) of class_students refuses a second
\* row for the pair.
PrimaryKeyRefuses(class_id, student_id) ==
    \E i \in 1..Len(class_students) :
        class_students[i] = [class_id |-> class_id, student_id |-> student_id]

\* create_class: the INSERT and its commit
create_class(w) ==
    /\ req[w].pc = "authed"
    /\ LET r == [req[w] EXCEPT !.op = "create_class"]
       IN  IF ~get_current_teacher(r.user)
           THEN /\ req' = [req EXCEPT ![w] = Respond(r, 403, <<>>)]
                /\ UNCHANGED classes
           ELSE /\ classes' = Append(classes, [teacher_id |-> r.user])
                /\ req' = [req EXCEPT ![w] =
                              Respond([r EXCEPT !.id = Len(classes) + 1], 200, <<>>)]
    /\ UNCHANGED <<users, class_students, cases, case_seq, sessions, dialogues,
                   now, served>>

\* The owner check of the roster handlers, refusing nobody
IsForeignClassNoCheck(class_id, u) == FALSE

\* class_obj.teacher_id != current_user.id
IsForeignClass(class_id, u) == classes[class_id].teacher_id # u

\* db.query(User).filter(User.id == student_id, User.role == STUDENT).first(),
\* as an id; 0 for None
StudentQuery(student_id) ==
    IF student_id \in UserIds /\ users[student_id].role = STUDENT
    THEN student_id ELSE 0

\* add_student_to_class up to its commit: the queries and the checks
add_student_to_class(w) ==
    /\ req[w].pc = "authed"
    /\ \E class_id \in IdInputs(Len(classes)), student_id \in IdInputs(Len(users)) :
         LET r == [req[w] EXCEPT !.op = "add_student_to_class", !.id = class_id,
                                 !.target = student_id]
         IN  req' = [req EXCEPT ![w] =
                IF ~get_current_teacher(r.user) THEN Respond(r, 403, <<>>)
                ELSE IF class_id \notin ClassIds THEN Respond(r, 404, <<>>)
                ELSE IF IsForeignClass(class_id, r.user) THEN Respond(r, 403, <<>>)
                ELSE IF StudentQuery(student_id) = 0 THEN Respond(r, 404, <<>>)
                ELSE IF student_id \in StudentsOf(class_id) THEN Respond(r, 200, <<>>)
                ELSE [r EXCEPT !.pc = "enrol_commit", !.token = NoToken]]
    /\ UNCHANGED <<db, now, served>>

\* class_obj.students.append(student), db.commit() and db.refresh(class_obj):
\* the INSERT into class_students, which the primary key refuses when the row
\* is there by now (IntegrityError)
add_student_commit(w) ==
    /\ req[w].pc = "enrol_commit"
    /\ Quiet(w)
    /\ LET r == req[w]
       IN  IF PrimaryKeyRefuses(r.id, r.target)
           THEN /\ req' = [req EXCEPT ![w] = Respond(r, 500, <<>>)]
                /\ UNCHANGED class_students
           ELSE /\ class_students' = Append(class_students,
                        [class_id |-> r.id, student_id |-> r.target])
                /\ req' = [req EXCEPT ![w] = Respond(r, 200, <<>>)]
    /\ UNCHANGED <<users, classes, cases, case_seq, sessions, dialogues,
                   now, served>>

\* remove_student_from_class up to its commit: the queries and the checks
remove_student_from_class(w) ==
    /\ req[w].pc = "authed"
    /\ \E class_id \in IdInputs(Len(classes)), student_id \in IdInputs(Len(users)) :
         LET r == [req[w] EXCEPT !.op = "remove_student_from_class",
                                 !.id = class_id, !.target = student_id]
         IN  req' = [req EXCEPT ![w] =
                IF ~get_current_teacher(r.user) THEN Respond(r, 403, <<>>)
                ELSE IF class_id \notin ClassIds THEN Respond(r, 404, <<>>)
                ELSE IF IsForeignClass(class_id, r.user) THEN Respond(r, 403, <<>>)
                ELSE IF student_id \in UserIds /\ student_id \in StudentsOf(class_id)
                THEN [r EXCEPT !.pc = "unenrol_commit", !.token = NoToken]
                ELSE Respond(r, 200, <<>>)]
    /\ UNCHANGED <<db, now, served>>

\* The rows without those of the pair (class_id, student_id)
RECURSIVE Without(_, _, _)
Without(rows, class_id, student_id) ==
    IF rows = <<>> THEN <<>>
    ELSE IF Head(rows) = [class_id |-> class_id, student_id |-> student_id]
         THEN Without(Tail(rows), class_id, student_id)
         ELSE <<Head(rows)>> \o Without(Tail(rows), class_id, student_id)

\* class_obj.students.remove(student) and db.commit(): the DELETE of the row.
\* When another request has deleted it by now, no row matches; the ORM raises
\* StaleDataError where the driver reports the row count, and otherwise the
\* commit passes.
remove_student_commit(w) ==
    /\ req[w].pc = "unenrol_commit"
    /\ Quiet(w)
    /\ LET r == req[w]
       IN  IF PrimaryKeyRefuses(r.id, r.target)
           THEN /\ class_students' = Without(class_students, r.id, r.target)
                /\ req' = [req EXCEPT ![w] = Respond(r, 200, <<>>)]
           ELSE /\ \E code \in {200, 500} :
                      req' = [req EXCEPT ![w] = Respond(r, code, <<>>)]
                /\ UNCHANGED class_students
    /\ UNCHANGED <<users, classes, cases, case_seq, sessions, dialogues,
                   now, served>>

-----------------------------------------------------------------------------
(* Statistics endpoints *)

\* db.query(SessionModel).filter(SessionModel.student_id == id).all()
SessionsOfStudent(student_id) ==
    SelectSeq(sessions, LAMBDA session : session.student_id = student_id)

\* sum(scores)
RECURSIVE sum(_)
sum(scores) == IF scores = <<>> THEN 0 ELSE Head(scores) + sum(Tail(scores))

\* average_score=None
NoAverage == <<>>

\* sum(scores) / len(scores): the quotient, as numerator and denominator
Quotient(a, b) == <<a, b>>

\* The statistics with every session counted as a case of its own
StudentStatsPerSession(rows) ==
    LET completed == SelectSeq(rows, LAMBDA s : s.status = COMPLETED)
        scored == SelectSeq(completed, LAMBDA s : s.score # Null)
        scores == [i \in 1..Len(scored) |-> scored[i].score]
    IN  [total_sessions |-> Len(rows),
         completed_sessions |-> Len(completed),
         average_score |-> IF scores # <<>> THEN Quotient(sum(scores), Len(scores))
                           ELSE NoAverage,
         total_cases_attempted |-> Len(rows)]

\* The lists completed and scores, and the StudentStats built from them
StudentStats(rows) ==
    LET completed == SelectSeq(rows, LAMBDA s : s.status = COMPLETED)
        scored == SelectSeq(completed, LAMBDA s : s.score # Null)
        scores == [i \in 1..Len(scored) |-> scored[i].score]
    IN  [total_sessions |-> Len(rows),
         completed_sessions |-> Len(completed),
         average_score |-> IF scores # <<>> THEN Quotient(sum(scores), Len(scores))
                           ELSE NoAverage,
         total_cases_attempted |->
             Cardinality({rows[i].case_id : i \in 1..Len(rows)})]

get_student_stats(w) ==
    /\ req[w].pc = "authed"
    /\ LET r == [req[w] EXCEPT !.op = "get_student_stats"]
       IN  req' = [req EXCEPT ![w] =
              IF ~get_current_student(r.user) THEN Respond(r, 403, <<>>)
              ELSE Respond(r, 200, <<StudentStats(SessionsOfStudent(r.user))>>)]
    /\ UNCHANGED <<db, now, served>>

-----------------------------------------------------------------------------
(* The system *)

Next ==
    \/ Tick
    \/ \E w \in Workers :
         \/ Authenticate(w)
         \/ Return(w)
         \/ login(w)
         \/ register(w)
         \/ create_case(w)
         \/ update_case(w)
         \/ update_case_commit(w)
         \/ delete_case(w)
         \/ delete_case_commit(w)
         \/ create_session(w)
         \/ create_session_commit(w)
         \/ list_sessions(w)
         \/ get_session(w)
         \/ submit_diagnosis(w)
         \/ submit_diagnosis_commit(w)
         \/ create_dialogue(w)
         \/ create_dialogue_commit(w)
         \/ get_session_dialogues(w)

Spec == Init /\ [][Next]_vars

-----------------------------------------------------------------------------
(* The scoring rule on every pair of strings up to MaxLen: one case, one open
   session of the seeded student, and one request left to serve *)

RECURSIVE Strings(_)
Strings(n) ==
    IF n = 0 THEN {<<>>}
    ELSE LET shorter == Strings(n - 1)
         IN  shorter \cup {Append(s, c) : s \in shorter, c \in Chars}

InitScore ==
    /\ users = SeedUsers
    /\ classes = <<>>
    /\ class_students = <<>>
    /\ \E canonical \in Strings(MaxLen) :
          cases = (1 :> [diagnosis |-> canonical, created_by |-> 1])
    /\ case_seq = 1
    /\ sessions = <<NewSession(2, 1, 0)>>
    /\ dialogues = <<>>
    /\ now = 0
    /\ req = [w \in Workers |-> IdleReq]
    /\ served = MaxRequests - 1

NextScore ==
    \E w \in Workers :
      \/ Authenticate(w)
      \/ submit_diagnosis_of(w, Strings(MaxLen))
      \/ submit_diagnosis_commit(w)
      \/ Return(w)

SpecScore == InitScore /\ [][NextScore]_vars

-----------------------------------------------------------------------------
(* The class rosters: the seeded users, the registrations, and the class
   endpoints *)

NextRoster ==
    \E w \in Workers :
      \/ Authenticate(w)
      \/ register(w)
      \/ create_class(w)
      \/ add_student_to_class(w)
      \/ add_student_commit(w)
      \/ remove_student_from_class(w)
      \/ remove_student_commit(w)
      \/ Return(w)

SpecRoster == Init /\ [][NextRoster]_vars

-----------------------------------------------------------------------------
(* The statistics on every table of up to MaxSessions sessions of two students
   on two cases: open, completed with score 100, or completed with score 0 *)

SessionRows ==
    {NewSession(u, c, 0) : u \in {2, 3}, c \in {1, 2}}
    \cup {Submitted(NewSession(u, c, 0), d, 0, Score(<<"b", "b">>, d)) :
            u \in {2, 3}, c \in {1, 2}, d \in {<<"b">>, <<"a">>}}

RECURSIVE Tables(_)
Tables(n) ==
    IF n = 0 THEN {<<>>}
    ELSE LET shorter == Tables(n - 1)
         IN  shorter \cup {Append(t, row) : t \in shorter, row \in SessionRows}

InitStats ==
    /\ users = Append(SeedUsers,
                      [username |-> "student2",
                       password_hash |-> get_password_hash("secret2"),
                       role |-> STUDENT, email |-> NoEmail])
    /\ classes = <<>>
    /\ class_students = <<>>
    /\ cases = [c \in {1, 2} |-> [diagnosis |-> <<"b", "b">>, created_by |-> 1]]
    /\ case_seq = 2
    /\ sessions \in Tables(MaxSessions)
    /\ dialogues = <<>>
    /\ now = 0
    /\ req = [w \in Workers |-> IdleReq]
    /\ served = MaxRequests - 1

NextStats ==
    \E w \in Workers :
      \/ Authenticate(w)
      \/ get_student_stats(w)
      \/ Return(w)

SpecStats == InitStats /\ [][NextStats]_vars

-----------------------------------------------------------------------------
(* Steps of a request, as the claims speak of them *)

\* Worker w runs the handler op up to its commit or its response.
Handles(w, op) ==
    req[w].pc = "authed" /\ req'[w].pc # "authed" /\ req'[w].op = op

\* Worker w commits what it left at pc.
Commits(w, pc) == req[w].pc = pc /\ req'[w].pc = "done"

\* Worker w has answered the request op.
Answered(w, op) == req[w].pc = "done" /\ req[w].op = op

-----------------------------------------------------------------------------
(* C1 *)

\* C1: in every reachable state no student has two IN_PROGRESS sessions on the
\* same case, whatever the interleaving of the requests.
C1_OneOpenSessionPerPair ==
    \A i, j \in SessionIds :
        /\ sessions[i].student_id = sessions[j].student_id
        /\ sessions[i].case_id = sessions[j].case_id
        /\ sessions[i].status = IN_PROGRESS
        /\ sessions[j].status = IN_PROGRESS
        => i = j

-----------------------------------------------------------------------------
(* C2 *)

OpenSessions(u, c) ==
    {i \in SessionIds : /\ sessions[i].student_id = u
                        /\ sessions[i].case_id = c
                        /\ sessions[i].status = IN_PROGRESS}

\* C2: create_session by a student who has an IN_PROGRESS session on an
\* existing case answers 200 with that session, and on a case that does not
\* exist answers 404; either way no session row is added or changed.
C2_IdempotentStart ==
    [][\A w \in Workers :
         Handles(w, "create_session") /\ get_current_student(req[w].user) =>
            LET u == req[w].user
                c == req'[w].id
            IN  /\ c \in CaseIds /\ OpenSessions(u, c) # {} =>
                     /\ req'[w].pc = "done"
                     /\ req'[w].code = 200
                     /\ Len(req'[w].body) = 1
                     /\ req'[w].body[1] \in OpenSessions(u, c)
                     /\ sessions' = sessions
                /\ c \notin CaseIds =>
                     /\ req'[w].pc = "done"
                     /\ req'[w].code = 404
                     /\ sessions' = sessions]_vars

\* A student has been answered with a session that already holds a dialogue.
C2_Witness ==
    \E w \in Workers :
        /\ Answered(w, "create_session")
        /\ req[w].code = 200
        /\ \E d \in DialogueIds : dialogues[d].session_id = req[w].body[1]
        /\ sessions[req[w].body[1]].status = IN_PROGRESS

-----------------------------------------------------------------------------
(* C3 *)

\* C3: a dialogue is committed only to a session that is IN_PROGRESS at the
\* commit, and create_dialogue on a session that is not answers 400.
C3_DialogueOnlyWhileOpen ==
    [][\A w \in Workers :
         /\ Commits(w, "dialogue_commit") =>
               sessions[req[w].id].status = IN_PROGRESS
         /\ /\ Handles(w, "create_dialogue")
            /\ get_current_student(req[w].user)
            /\ req'[w].id \in SessionIds
            /\ sessions[req'[w].id].student_id = req[w].user
            /\ sessions[req'[w].id].status # IN_PROGRESS
            => req'[w].pc = "done" /\ req'[w].code = 400 /\ dialogues' = dialogues]_vars

-----------------------------------------------------------------------------
(* C4 *)

\* C4: submit_diagnosis by the session's student is never refused for the
\* session's status; it scores the submitted text against the case's diagnosis,
\* and its commit leaves the session COMPLETED with that text, that score and a
\* submission time, also when the session was COMPLETED before.
C4_SubmitCompletes ==
    [][\A w \in Workers :
         /\ /\ Handles(w, "submit_diagnosis")
            /\ get_current_student(req[w].user)
            /\ req'[w].id \in SessionIds
            /\ sessions[req'[w].id].student_id = req[w].user
            => /\ req'[w].pc = "submit_commit"
               /\ req'[w].score =
                     Score(cases[sessions[req'[w].id].case_id].diagnosis, req'[w].text)
         /\ Commits(w, "submit_commit") =>
               LET after == sessions'[req[w].id]
               IN  /\ req'[w].code = 200
                   /\ req'[w].body = <<req[w].id>>
                   /\ after.status = COMPLETED
                   /\ after.student_diagnosis = req[w].text
                   /\ after.diagnosis_submitted # Null
                   /\ after.score = req[w].score]_vars

\* A second diagnosis, different from the first, is about to be committed to a
\* session that is COMPLETED.
C4_Witness ==
    \E w \in Workers :
        /\ req[w].pc = "submit_commit"
        /\ sessions[req[w].id].status = COMPLETED
        /\ sessions[req[w].id].student_diagnosis # req[w].text
        /\ sessions[req[w].id].score # req[w].score

-----------------------------------------------------------------------------
(* C5 *)

\* norm(x): x lower-cased, without its leading and trailing whitespace
Norm(x) ==
    LET kept == {i \in 1..Len(x) : x[i] # " "}
        first == CHOOSE i \in kept : \A j \in kept : i <= j
        last == CHOOSE i \in kept : \A j \in kept : j <= i
    IN  IF kept = {} THEN <<>>
        ELSE [i \in 1..(last - first + 1) |->
                 IF x[first + i - 1] = "A" THEN "a" ELSE x[first + i - 1]]

\* a is a substring of b: b is some prefix, then a, then some suffix
IsSubstring(a, b) ==
    \E i \in 0..Len(b), j \in 0..Len(b) :
        i <= j /\ SubSeq(b, i + 1, j) = a

Rule(c, s) ==
    IF IsSubstring(Norm(c), Norm(s)) \/ IsSubstring(Norm(s), Norm(c)) THEN 100 ELSE 0

\* C5: the score that submit_diagnosis computes and stores is 100 if one of
\* norm(canonical) and norm(submitted) is a substring of the other, 0 if not.
C5_ScoringRule ==
    /\ \A w \in Workers :
          req[w].pc = "submit_commit" =>
             req[w].score = Rule(cases[sessions[req[w].id].case_id].diagnosis,
                                 req[w].text)
    /\ \A i \in SessionIds :
          /\ sessions[i].score \in {Null, 0, 100}
          /\ sessions[i].status = COMPLETED =>
                sessions[i].score = Rule(cases[sessions[i].case_id].diagnosis,
                                         sessions[i].student_diagnosis)

\* A submission that differs from the canonical diagnosis in case and in its
\* surrounding whitespace has scored 100, where the canonical diagnosis is the
\* shorter of the two.
C5_Witness ==
    \E i \in SessionIds :
        /\ sessions[i].status = COMPLETED
        /\ sessions[i].score = 100
        /\ Len(Norm(cases[sessions[i].case_id].diagnosis)) > 0
        /\ Len(Norm(sessions[i].student_diagnosis)) >
              Len(Norm(cases[sessions[i].case_id].diagnosis))
        /\ sessions[i].student_diagnosis # Norm(sessions[i].student_diagnosis)

-----------------------------------------------------------------------------
(* C6 *)

\* C6: a session is created IN_PROGRESS, is never ABANDONED, is never removed,
\* and once COMPLETED stays COMPLETED.
C6_StatusOnlyForward ==
    [][/\ Len(sessions') >= Len(sessions)
       /\ \A i \in 1..Len(sessions') :
             /\ sessions'[i].status # ABANDONED
             /\ i > Len(sessions) => sessions'[i].status = IN_PROGRESS
             /\ i <= Len(sessions) /\ sessions[i].status = COMPLETED =>
                   sessions'[i].status = COMPLETED]_vars

\* A COMPLETED session has refused a dialogue and is COMPLETED still.
C6_Witness ==
    \E w \in Workers :
        /\ Answered(w, "create_dialogue")
        /\ req[w].code = 400
        /\ sessions[req[w].id].status = COMPLETED

-----------------------------------------------------------------------------
(* C7 *)

\* C7: get_session_dialogues returns the dialogues of the session in the order
\* in which they were appended (the order of their ids), equal timestamps or
\* not.
C7_DialoguesInAppendOrder ==
    \A w \in Workers :
        Answered(w, "get_session_dialogues") /\ req[w].code = 200 =>
            \A i, j \in DOMAIN req[w].body :
                i < j => req[w].body[i] < req[w].body[j]

-----------------------------------------------------------------------------
(* C8 *)

\* C8: update_case and delete_case by a teacher who did not create the case
\* answer 403 and change no case; a case changes or disappears only in the
\* commit of a request of its creator.
C8_OnlyCreatorChangesCase ==
    [][/\ \A w \in Workers :
             /\ Handles(w, "update_case") \/ Handles(w, "delete_case")
             /\ users[req[w].user].role = TEACHER
             /\ req'[w].id \in CaseIds
             /\ cases[req'[w].id].created_by # req[w].user
             => req'[w].pc = "done" /\ req'[w].code = 403 /\ cases' = cases
       /\ \A x \in CaseIds :
             x \notin DOMAIN cases' \/ cases'[x] # cases[x] =>
                \E w \in Workers :
                   /\ Commits(w, "update_commit") \/ Commits(w, "delete_commit")
                   /\ req[w].id = x
                   /\ req[w].user = cases[x].created_by]_vars

\* A teacher has been refused the update or the deletion of another teacher's
\* case.
C8_Witness ==
    \E w \in Workers :
        /\ Answered(w, "update_case") \/ Answered(w, "delete_case")
        /\ req[w].code = 403
        /\ users[req[w].user].role = TEACHER
        /\ req[w].id \in CaseIds
        /\ cases[req[w].id].created_by # req[w].user

-----------------------------------------------------------------------------
(* C9 *)

\* Worker w resolves the token of a request.
Resolves(w) ==
    req[w].pc = "idle" /\ req'[w].pc \in {"authed", "done"} /\ req'[w].op = "none"

\* C9: a token that login issues to user u at time t resolves to u before
\* t + ACCESS_TOKEN_EXPIRE_MINUTES and is refused with 401 after it; a missing
\* or malformed token, a foreign signature and a subject that is no username
\* are refused with 401; a refused request ends there, and resolving a token
\* changes no row.
C9_TokenRoundTripAndExpiry ==
    [][\A w \in Workers : Resolves(w) =>
          LET token == req'[w].token
              refused == req'[w].pc = "done" /\ req'[w].code = 401
          IN  /\ UNCHANGED db
              /\ req'[w].pc = "done" => refused
              /\ \A u \in UserIds, t \in IssueTimes :
                    token = create_access_token(users[u].username,
                                                ACCESS_TOKEN_EXPIRE_MINUTES, t)
                    => /\ now < t + ACCESS_TOKEN_EXPIRE_MINUTES =>
                             req'[w].pc = "authed" /\ req'[w].user = u
                       /\ now > t + ACCESS_TOKEN_EXPIRE_MINUTES => refused
              /\ \/ token.form # "jwt"
                 \/ token.key # SECRET_KEY
                 \/ \A u \in UserIds : users[u].username # token.claims.sub
                 => refused]_vars

\* A token issued to a user has been refused after its expiry.
C9_Witness ==
    \E w \in Workers, u \in UserIds :
        /\ req[w].pc = "done"
        /\ req[w].op = "none"
        /\ req[w].code = 401
        /\ req[w].token = create_access_token(users[u].username,
                                              ACCESS_TOKEN_EXPIRE_MINUTES, 0)
        /\ now > ACCESS_TOKEN_EXPIRE_MINUTES

-----------------------------------------------------------------------------
(* C10 *)

\* C10: get_session and get_session_dialogues on an existing session answer
\* 200 exactly to a teacher and to the session's student, and 403 to any other
\* student; list_sessions answers a student with that student's sessions only.
C10_SessionReadAccess ==
    \A w \in Workers :
        /\ /\ Answered(w, "get_session") \/ Answered(w, "get_session_dialogues")
           /\ req[w].id \in SessionIds
           => LET allowed == \/ users[req[w].user].role = TEACHER
                             \/ sessions[req[w].id].student_id = req[w].user
              IN  /\ req[w].code = 200 <=> allowed
                  /\ req[w].code = 403 <=> ~allowed
        /\ /\ Answered(w, "list_sessions")
           /\ users[req[w].user].role = STUDENT
           => \A k \in DOMAIN req[w].body :
                 sessions[req[w].body[k]].student_id = req[w].user

\* A student has been refused another student's session or its dialogues.
C10_Witness ==
    \E w \in Workers :
        /\ Answered(w, "get_session") \/ Answered(w, "get_session_dialogues")
        /\ req[w].code = 403
        /\ users[req[w].user].role = STUDENT
        /\ sessions[req[w].id].student_id # req[w].user

-----------------------------------------------------------------------------
(* C11 *)

\* The users enrolled in class k, one entry for each row of class_students
Enrolments(k) == {i \in 1..Len(class_students) : class_students[i].class_id = k}

\* C11: add_student_to_class and remove_student_from_class on a class by a
\* teacher who does not own it answer 403; adding a user that does not exist or
\* is no STUDENT answers 404; adding an enrolled student adds no row; the rows of
\* a class change only in the commit of a request of its owner; and in every
\* reachable state a roster holds each user at most once and only STUDENT users.
C11_RosterMutation ==
    /\ [](/\ \A i, j \in 1..Len(class_students) :
                class_students[i] = class_students[j] => i = j
          /\ \A i \in 1..Len(class_students) :
                /\ class_students[i].class_id \in ClassIds
                /\ class_students[i].student_id \in UserIds
                /\ users[class_students[i].student_id].role = STUDENT)
    /\ [][/\ \A w \in Workers :
                /\ \/ Handles(w, "add_student_to_class")
                   \/ Handles(w, "remove_student_from_class")
                /\ users[req[w].user].role = TEACHER
                /\ req'[w].id \in ClassIds
                => /\ classes[req'[w].id].teacher_id # req[w].user
                      => /\ req'[w].pc = "done" /\ req'[w].code = 403
                         /\ class_students' = class_students
                   /\ /\ classes[req'[w].id].teacher_id = req[w].user
                      /\ req'[w].op = "add_student_to_class"
                      /\ \/ req'[w].target \notin UserIds
                         \/ users[req'[w].target].role # STUDENT
                      => /\ req'[w].pc = "done" /\ req'[w].code = 404
                         /\ class_students' = class_students
                   /\ /\ classes[req'[w].id].teacher_id = req[w].user
                      /\ req'[w].op = "add_student_to_class"
                      /\ \E i \in Enrolments(req'[w].id) :
                            class_students[i].student_id = req'[w].target
                      => /\ req'[w].pc = "done" /\ req'[w].code = 200
                         /\ class_students' = class_students
          /\ \A w \in Workers :
                /\ Commits(w, "enrol_commit")
                /\ \E i \in Enrolments(req[w].id) :
                      class_students[i].student_id = req[w].target
                => class_students' = class_students
          /\ \A k \in ClassIds :
                {class_students'[i] : i \in {j \in 1..Len(class_students') :
                                                class_students'[j].class_id = k}}
                    # {class_students[i] : i \in Enrolments(k)}
                => \E w \in Workers :
                      /\ Commits(w, "enrol_commit") \/ Commits(w, "unenrol_commit")
                      /\ req[w].id = k
                      /\ req[w].user = classes[k].teacher_id]_vars

\* A teacher who does not own a class with an enrolled student has been refused
\* a change of its roster.
C11_Witness ==
    \E w \in Workers :
        /\ \/ Answered(w, "add_student_to_class")
           \/ Answered(w, "remove_student_from_class")
        /\ req[w].code = 403
        /\ users[req[w].user].role = TEACHER
        /\ req[w].id \in ClassIds
        /\ classes[req[w].id].teacher_id # req[w].user
        /\ Enrolments(req[w].id) # {}

-----------------------------------------------------------------------------
(* C12 *)

\* The sessions of student u, as ids
OwnSessions(u) == {i \in SessionIds : sessions[i].student_id = u}

\* The sum of the scores of the sessions S
RECURSIVE ScoreTotal(_)
ScoreTotal(S) ==
    IF S = {} THEN 0
    ELSE LET i == CHOOSE x \in S : TRUE
         IN  sessions[i].score + ScoreTotal(S \ {i})

\* C12: get_student_stats answers a student with the number of their sessions,
\* the number of them that are COMPLETED, the number of distinct cases among
\* them, and the mean of the scores of the COMPLETED ones that have a score,
\* absent when there is none.
C12_StudentStats ==
    \A w \in Workers :
        Answered(w, "get_student_stats") /\ req[w].code = 200 =>
            LET stats == req[w].body[1]
                own == OwnSessions(req[w].user)
                done == {i \in own : sessions[i].status = COMPLETED}
                scored == {i \in done : sessions[i].score # Null}
            IN  /\ users[req[w].user].role = STUDENT
                /\ stats.total_sessions = Cardinality(own)
                /\ stats.completed_sessions = Cardinality(done)
                /\ stats.total_cases_attempted =
                      Cardinality({c \in CaseIds : \E i \in own : sessions[i].case_id = c})
                /\ scored = {} => stats.average_score = NoAverage
                /\ scored # {} =>
                      /\ Len(stats.average_score) = 2
                      /\ stats.average_score[2] > 0
                      /\ stats.average_score[1] * Cardinality(scored)
                            = ScoreTotal(scored) * stats.average_score[2]

\* A student with three sessions on two cases, two of them completed with the
\* scores 100 and 0, has been answered 3, 2, 50.0 and 2.
C12_Witness ==
    \E w \in Workers :
        /\ Answered(w, "get_student_stats")
        /\ req[w].code = 200
        /\ Cardinality(OwnSessions(req[w].user)) = 3
        /\ {sessions[i].score : i \in OwnSessions(req[w].user)} = {Null, 0, 100}
        /\ req[w].body[1].total_sessions = 3
        /\ req[w].body[1].completed_sessions = 2
        /\ req[w].body[1].average_score[1] = 50 * req[w].body[1].average_score[2]
        /\ req[w].body[1].total_cases_attempted = 2

-----------------------------------------------------------------------------
(* C13 *)

-----------------------------------------------------------------------------
(* C14 *)

\* C14: in every reachable state the score of a session is unset exactly when
\* its status is IN_PROGRESS, and a COMPLETED session has the score 0 or 100, a
\* student_diagnosis and a diagnosis_submitted.
C14_ScoreSetIffCompleted ==
    \A i \in SessionIds :
        /\ sessions[i].score = Null <=> sessions[i].status = IN_PROGRESS
        /\ sessions[i].status = COMPLETED =>
              /\ sessions[i].score \in {0, 100}
              /\ sessions[i].student_diagnosis # NullText
              /\ sessions[i].diagnosis_submitted # Null

\* A session completed with the score 0 next to a session in progress
C14_Witness ==
    \E i, j \in SessionIds :
        /\ sessions[i].status = COMPLETED
        /\ sessions[i].score = 0
        /\ sessions[j].status = IN_PROGRESS
        /\ sessions[j].score = Null

-----------------------------------------------------------------------------
(* C15 *)

\* The string is empty or holds nothing but whitespace.
IsBlank(x) == \A k \in 1..Len(x) : x[k] = " "

\* C15: a submitted diagnosis that is empty or only whitespace is scored 100,
\* whatever the canonical diagnosis of the case.
C15_BlankScoresFull ==
    \A i \in SessionIds :
        /\ sessions[i].status = COMPLETED
        /\ IsBlank(sessions[i].student_diagnosis)
        => sessions[i].score = 100

\* A diagnosis of whitespace alone has been submitted, and scored 100, on a
\* case whose canonical diagnosis holds a letter.
C15_Witness ==
    \E w \in Workers :
        /\ Answered(w, "submit_diagnosis")
        /\ req[w].code = 200
        /\ sessions[req[w].id].student_diagnosis # <<>>
        /\ IsBlank(sessions[req[w].id].student_diagnosis)
        /\ sessions[req[w].id].score = 100
        /\ ~IsBlank(cases[sessions[req[w].id].case_id].diagnosis)

=============================================================================
